---- MODULE Spec2Model ----
(***************************************************************************)
(* Job orchestration of the YT-Automation backend (src/server.py): the     *)
(* in-memory job store (jobs, jobs_lock), the submission handler           *)
(* api_generate, the KAGGLE_LIVE worker thread, the local executor         *)
(* generate_call_local, the status query api_job and the artifact          *)
(* retrieval api_output.                                                   *)
(*                                                                         *)
(* Every job_init / job_update / job_log call runs its whole body under    *)
(* jobs_lock, so each call is one atomic step; threads interleave between  *)
(* calls.  A meta dict is a heap object: rec[s] is the dict created by the *)
(* s-th submission and jobs maps a job id to the dict it currently holds.  *)
(***************************************************************************)
EXTENDS Integers, Sequences, FiniteSets, TLC

\* ------------------------------------------------------------------ bounds
MaxSubmits == 3      \* meta dicts ever created (POST /api/generate requests)
MaxJobs == 2         \* submissions in a behaviour of Spec
NumJobIds == 3       \* distinct values uuid4().hex[:8] can take
MaxPolls == 2        \* GET /api/job requests in one behaviour
MaxPolledJobs == 1   \* submissions in a behaviour that also polls
NumSims == 2         \* simulated workers calling the store directly
MaxCalls == 2        \* store calls made by each simulated worker
MaxDurationInput == 65  \* largest in-range integer a client sends as duration
MaxLocalJobs == 1    \* jobs in a behaviour that runs the local executor
MaxFetches == 1      \* GET /api/output requests in one behaviour

\* Concurrency limit of the worker pool the specification describes.
W == 2

\* ------------------------------------------------------------------ values
None == "None"
Absent == "<absent>"

HexDigit == <<"1", "2", "3", "4", "5", "6", "7", "8", "9", "a", "b", "c", "d", "e", "f">>

\* "job-" + uuid.uuid4().hex[:8]
JobIdOf(i) == "job-" \o "0000000" \o HexDigit[i]

JobIds == {JobIdOf(i) : i \in 1..NumJobIds}

Subs == 1..MaxSubmits

NoRec == [jobId |-> None]

\* Values of the "engine" field a client can send (Absent: no such field).
EngineInputs == {Absent, "kaggle_live", "KAGGLE_LIVE", "AUTO", "SVD"}

\* str.upper() on the engine names above
Upper(e) ==
  CASE e = "kaggle_live" -> "KAGGLE_LIVE"
    [] e = "local" -> "LOCAL"
    [] OTHER -> e

\* data.get("engine", "LOCAL").upper()
EngineOf(e) == Upper(IF e = Absent THEN "LOCAL" ELSE e)

\* Values of the "duration" field a client can send: no field, a JSON
\* integer, or a string that is not a number (form fields are strings).
NoDuration == [t |-> "absent"]

IntDuration(n) == [t |-> "int", v |-> n]

DurationInputs ==
  {NoDuration, [t |-> "str", v |-> ""], [t |-> "str", v |-> "abc"]}
    \cup {IntDuration(n) : n \in ((-5)..MaxDurationInput) \cup {500}}

DefaultDuration == 15
MinDuration == 1
MaxDuration == 60

\* bool(x) of a duration value: None, 0 and "" are falsy.
Truthy(d) ==
  CASE d.t = "absent" -> FALSE
    [] d.t = "int" -> d.v # 0
    [] d.t = "str" -> d.v # ""

Min(a, b) == IF a < b THEN a ELSE b

Max(a, b) == IF a > b THEN a ELSE b

\* try: duration = int(data.get("duration") or 15)
\* except Exception: duration = 15
\* duration = max(1, min(duration, 60))
DurationOf(d) ==
  LET x == IF Truthy(d) THEN d ELSE IntDuration(DefaultDuration)
      duration == IF x.t = "int" THEN x.v ELSE DefaultDuration
  IN Max(MinDuration, Min(duration, MaxDuration))

\* What the rendering command would do if it were run for a submission:
\* "ok" exits 0, prints {"output": <path>} last and creates that file.
CmdOutcomes == {"ok", "fail"}

\* Values the remote engine can put in the "status" field of its JSON reply.
RemoteStatuses == {Absent, "error", "processing"}

\* What requests.post(...) can do: raise requests.Timeout, raise another
\* exception, or return a response with a status code and a body that is not
\* JSON, is JSON but not an object, or is a JSON object {ok, status}.
RemoteOutcomes ==
  {[kind |-> "timeout", code |-> 0, ok |-> FALSE, status |-> Absent],
   [kind |-> "exception", code |-> 0, ok |-> FALSE, status |-> Absent],
   [kind |-> "nonjson", code |-> 502, ok |-> FALSE, status |-> Absent],
   [kind |-> "list", code |-> 200, ok |-> FALSE, status |-> Absent],
   [kind |-> "dict", code |-> 200, ok |-> FALSE, status |-> Absent],
   [kind |-> "dict", code |-> 500, ok |-> TRUE, status |-> Absent]}
  \cup {[kind |-> "dict", code |-> 200, ok |-> TRUE, status |-> st] : st \in RemoteStatuses}

\* data = resp.json(): the body alone; resp.status_code is never read.
JsonOf(out) == [kind |-> out.kind, ok |-> out.ok, status |-> out.status]

NoData == [kind |-> None, ok |-> FALSE, status |-> Absent]

\* Configured values of KAGGLE_LIVE_API_BASE (None: the variable is unset).
ApiBases == {None, "https://colab.example"}

VARIABLES
  KAGGLE_LIVE_API_BASE, \* module constant read from the environment at start
  jobs,                 \* job id -> index of the meta dict it holds, 0 if none
  rec,                  \* the meta dicts, by the submission that created them
  nsub,                 \* number of submissions handled so far
  thr,                  \* worker thread of each submission
  http,                 \* status code api_generate answered each submission
  cmd,                  \* behaviour of the rendering command per submission
  poll,                 \* the api_job request in progress, its response, and
                        \* (seen) the values its dict has had since the lookup
  sim,                  \* simulated workers calling job_log / job_update
  appends,              \* per job id and simulated worker, the job_log calls
                        \* that returned while the id was in the store
  request,              \* the "duration" value each submission carried
  disk,                 \* paths of the files that exist
  procs,                \* processes started for each submission and running
  fetch                 \* the api_output request in progress and its response

vars == <<KAGGLE_LIVE_API_BASE, jobs, rec, nsub, thr, http, cmd, poll, sim, appends,
          request, disk, procs, fetch>>

\* ------------------------------------------------------------------ store

\* time.strftime("%H:%M:%S") is not modelled as a clock: every line carries
\* the same symbolic stamp.
Line(message) == "[hh:mm:ss] " \o message

\* dict.update(fields)
Merge(meta, fields) ==
  [k \in DOMAIN meta \cup DOMAIN fields |->
     IF k \in DOMAIN fields THEN fields[k] ELSE meta[k]]

\* The meta dict job_init builds.
NewMeta(job_id, engine, duration) ==
  [jobId |-> job_id, duration |-> duration, engine |-> engine, status |-> "queued", progress |-> 0,
   logs |-> <<"queued">>, outputUrl |-> None, outputPath |-> None]

\* job_init: jobs[job_id] = meta, whatever jobs held for job_id before.
job_init(J, job_id, s) == [J EXCEPT ![job_id] = s]

\* job_update storing the fields under an id the store does not hold
\* (jobs.setdefault(job_id, {}).update(fields)), in a dict of its own.
job_update_create(R, J, job_id, fields) ==
  IF J[job_id] = 0
  THEN [R EXCEPT ![MaxSubmits] = Merge(@, fields)]
  ELSE [R EXCEPT ![J[job_id]] = Merge(@, fields)]

job_update(R, J, job_id, fields) ==
  IF J[job_id] = 0 THEN R
  ELSE [R EXCEPT ![J[job_id]] = Merge(@, fields)]

\* A job_log that assigns the list instead of appending to it.
job_log_assign(R, J, job_id, message) ==
  IF J[job_id] = 0 THEN R
  ELSE [R EXCEPT ![J[job_id]].logs = <<Line(message)>>]

job_log(R, J, job_id, message) ==
  IF J[job_id] = 0 THEN R
  ELSE [R EXCEPT ![J[job_id]].logs = Append(@, Line(message))]

\* The response fields: the dict without outputPath.
Public(meta) == [k \in DOMAIN meta \ {"outputPath"} |-> meta[k]]

\* A request between its lookup and its response notes each value its dict
\* takes (history kept for stating what a snapshot is).
Observe(p, R) ==
  IF p.pc \in {"copy", "jsonify"} THEN [p EXCEPT !.seen = @ \cup {Public(R[p.meta])}] ELSE p

\* Writes the heap.
Commit(R) ==
  /\ rec' = R
  /\ poll' = Observe(poll, R)

\* ------------------------------------------------------------------ threads
NoThread == [pc |-> "none", job_id |-> None, data |-> NoData]

NoPoll == [pc |-> "idle", n |-> 0, job_id |-> None, meta |-> 0,
           resp |-> NoRec, code |-> 0, body |-> NoRec, seen |-> {}]

NoFetch == [pc |-> "idle", n |-> 0, job_id |-> None, meta |-> 0, output_path |-> None,
            code |-> 0]

NoSim == [pc |-> "idle", n |-> 0, op |-> None, job_id |-> None, fields |-> [status |-> None]]

Init ==
  /\ KAGGLE_LIVE_API_BASE \in ApiBases
  /\ jobs = [id \in JobIds |-> 0]
  /\ rec = [s \in Subs |-> NoRec]
  /\ nsub = 0
  /\ thr = [s \in Subs |-> NoThread]
  /\ http = [s \in Subs |-> 0]
  /\ cmd = [s \in Subs |-> None]
  /\ poll = NoPoll
  /\ sim = [t \in 1..NumSims |-> NoSim]
  /\ appends = [id \in JobIds |-> [t \in 1..NumSims |-> 0]]
  /\ request = [s \in Subs |-> NoRec]
  /\ disk = {}
  /\ procs = [s \in Subs |-> {}]
  /\ fetch = NoFetch

\* ------------------------------------------------------------------ api_generate
\* POST /api/generate.  job_init runs first; then the worker is picked by
\* engine.  For KAGGLE_LIVE the thread is started and 202 returned.  For any
\* other engine the target is the name generate_call, which the module never
\* defines: building the Thread raises NameError, no thread exists and the
\* request ends with status 500, the record staying as job_init left it.
ApiGenerateOf(D) ==
  /\ nsub < MaxSubmits
  /\ \E e \in EngineInputs, d \in D, job_id \in JobIds, c \in CmdOutcomes :
       LET s == nsub + 1
           duration == DurationOf(d)
           engine == EngineOf(e)
       IN /\ nsub' = s
          /\ request' = [request EXCEPT ![s] = d]
          /\ jobs' = job_init(jobs, job_id, s)
          /\ Commit([rec EXCEPT ![s] = NewMeta(job_id, engine, duration)])
          /\ cmd' = [cmd EXCEPT ![s] = IF engine = "KAGGLE_LIVE" THEN None ELSE c]
          /\ IF engine = "KAGGLE_LIVE"
             THEN /\ thr' = [thr EXCEPT ![s] = [pc |-> "k_start", job_id |-> job_id, data |-> NoData]]
                  /\ http' = [http EXCEPT ![s] = 202]
             ELSE /\ thr' = thr
                  /\ http' = [http EXCEPT ![s] = 500]
  /\ UNCHANGED <<KAGGLE_LIVE_API_BASE, sim, appends, disk, procs, fetch>>

\* A submission that sends no duration.
ApiGenerate == ApiGenerateOf({NoDuration})

\* ------------------------------------------------------------------ generate_call_kaggle_live
Frame ==
  UNCHANGED <<KAGGLE_LIVE_API_BASE, jobs, nsub, http, cmd, sim, appends, request, disk, procs, fetch>>

\* job_log(job_id, "starting KAGGLE_LIVE (Colab) generation")
KaggleStart(s) ==
  /\ thr[s].pc = "k_start"
  /\ Commit(job_log(rec, jobs, thr[s].job_id, "starting KAGGLE_LIVE (Colab) generation"))
  /\ thr' = [thr EXCEPT ![s].pc = "k_running"]
  /\ Frame

\* job_update(job_id, status="running", progress=5), then the test of
\* KAGGLE_LIVE_API_BASE
KaggleRunning(s) ==
  /\ thr[s].pc = "k_running"
  /\ Commit(job_update(rec, jobs, thr[s].job_id, [status |-> "running", progress |-> 5]))
  /\ thr' = [thr EXCEPT ![s].pc = IF KAGGLE_LIVE_API_BASE = None THEN "k_fail_nobase" ELSE "k_post"]
  /\ Frame

\* requests.post(...), resp.json()
KagglePost(s) ==
  /\ thr[s].pc = "k_post"
  /\ \E out \in RemoteOutcomes :
       thr' = [thr EXCEPT ![s].data = JsonOf(out),
                          ![s].pc = CASE out.kind = "timeout" -> "k_fail_timeout"
                                      [] out.kind = "exception" -> "k_fail_exception"
                                      [] out.kind = "nonjson" -> "k_fail_json"
                                      [] OTHER -> "k_log_response"]
  /\ UNCHANGED <<rec, poll>>
  /\ Frame

\* job_log(job_id, f"KAGGLE_LIVE response: {data}"), then data.get("ok"):
\* a JSON value that is not an object has no get and raises into the outer
\* except Exception.
KaggleLogResponse(s) ==
  /\ thr[s].pc = "k_log_response"
  /\ Commit(job_log(rec, jobs, thr[s].job_id, "KAGGLE_LIVE response"))
  /\ thr' = [thr EXCEPT ![s].pc = CASE thr[s].data.kind = "list" -> "k_fail_exception"
                                    [] ~thr[s].data.ok -> "k_fail_notok"
                                    [] OTHER -> "k_finish"]
  /\ Frame

FailPcs == {"k_fail_nobase", "k_fail_timeout", "k_fail_exception", "k_fail_json", "k_fail_notok"}

FailLogPc(pc) ==
  CASE pc = "k_fail_nobase" -> "k_log_nobase"
    [] pc = "k_fail_timeout" -> "k_log_timeout"
    [] pc = "k_fail_exception" -> "k_log_exception"
    [] pc = "k_fail_json" -> "k_log_json"
    [] pc = "k_fail_notok" -> "k_log_notok"

FailMessage(pc) ==
  CASE pc = "k_log_nobase" -> "KAGGLE_LIVE_API_BASE not configured"
    [] pc = "k_log_timeout" -> "KAGGLE_LIVE call timed out"
    [] pc = "k_log_exception" -> "KAGGLE_LIVE exception"
    [] pc = "k_log_json" -> "invalid JSON from KAGGLE_LIVE"
    [] pc = "k_log_notok" -> "KAGGLE_LIVE reported error"

FailLogPcs == {FailLogPc(pc) : pc \in FailPcs}

\* job_update(job_id, status="error", progress=0) of every failure branch
KaggleFail(s) ==
  /\ thr[s].pc \in FailPcs
  /\ Commit(job_update(rec, jobs, thr[s].job_id, [status |-> "error", progress |-> 0]))
  /\ thr' = [thr EXCEPT ![s].pc = FailLogPc(thr[s].pc)]
  /\ Frame

\* the job_log that follows it, then return
KaggleFailLog(s) ==
  /\ thr[s].pc \in FailLogPcs
  /\ Commit(job_log(rec, jobs, thr[s].job_id, FailMessage(thr[s].pc)))
  /\ thr' = [thr EXCEPT ![s].pc = "returned", ![s].data = NoData]
  /\ Frame

\* f"{KAGGLE_LIVE_API_BASE}/api/output/{job_id}"
RemoteUrl(job_id) == KAGGLE_LIVE_API_BASE \o "/api/output/" \o job_id

\* data.get("status", "done")
FinalStatus(data) == IF data.status = Absent THEN "done" ELSE data.status

\* job_update(job_id, status=data.get("status", "done"), progress=100,
\*            outputPath=None, outputUrl=out_url)
KaggleFinish(s) ==
  /\ thr[s].pc = "k_finish"
  /\ Commit(job_update(rec, jobs, thr[s].job_id,
                       [status |-> FinalStatus(thr[s].data), progress |-> 100,
                        outputPath |-> None, outputUrl |-> RemoteUrl(thr[s].job_id)]))
  /\ thr' = [thr EXCEPT ![s].pc = "k_log_finish"]
  /\ Frame

\* job_log(job_id, f"KAGGLE_LIVE finished. Output URL: {out_url}")
KaggleFinishLog(s) ==
  /\ thr[s].pc = "k_log_finish"
  /\ Commit(job_log(rec, jobs, thr[s].job_id, "KAGGLE_LIVE finished. Output URL: " \o RemoteUrl(thr[s].job_id)))
  /\ thr' = [thr EXCEPT ![s].pc = "returned", ![s].data = NoData]
  /\ Frame

\* ------------------------------------------------------------------ api_job
PollFrame ==
  UNCHANGED <<KAGGLE_LIVE_API_BASE, jobs, rec, nsub, thr, http, cmd, sim, appends,
              request, disk, procs, fetch>>

\* with jobs_lock: meta = jobs.get(job_id); an unknown id is answered 404.
ApiJobGet ==
  /\ poll.pc = "idle"
  /\ poll.n < MaxPolls
  /\ \E job_id \in JobIds :
       poll' = IF jobs[job_id] = 0
               THEN [NoPoll EXCEPT !.n = poll.n + 1, !.job_id = job_id, !.code = 404,
                                   !.body = [jobId |-> job_id, status |-> "notfound"]]
               ELSE [NoPoll EXCEPT !.pc = "copy", !.n = poll.n, !.job_id = job_id,
                                   !.meta = jobs[job_id],
                                   !.seen = {Public(rec[jobs[job_id]])}]
  /\ PollFrame

\* resp = dict(meta); resp.pop("outputPath", None): a shallow copy taken
\* outside the lock.  The scalar fields are copied now; resp["logs"] is the
\* very list object the store keeps appending to.
ApiJobCopy ==
  /\ poll.pc = "copy"
  /\ poll' = [poll EXCEPT !.pc = "jsonify", !.resp = Public(rec[poll.meta])]
  /\ PollFrame

\* jsonify(resp): the list is read when the response is serialised.
ApiJobJsonify ==
  /\ poll.pc = "jsonify"
  /\ poll' = [poll EXCEPT !.pc = "idle", !.n = poll.n + 1, !.code = 200,
                          !.body = [poll.resp EXCEPT !.logs = rec[poll.meta].logs]]
  /\ PollFrame

\* ------------------------------------------------------------------ server
\* A step of the worker thread of submission s.
Worker(s) ==
  \/ KaggleStart(s)
  \/ KaggleRunning(s)
  \/ KagglePost(s)
  \/ KaggleLogResponse(s)
  \/ KaggleFail(s)
  \/ KaggleFailLog(s)
  \/ KaggleFinish(s)
  \/ KaggleFinishLog(s)

\* Submissions and their worker threads.
Next ==
  \/ nsub < MaxJobs /\ ApiGenerate
  \/ \E s \in Subs : Worker(s)

Spec == Init /\ [][Next]_vars

\* The same with a client polling GET /api/job.
NextPoll ==
  \/ nsub < MaxPolledJobs /\ ApiGenerate
  \/ \E s \in Subs : Worker(s)
  \/ ApiJobGet
  \/ ApiJobCopy
  \/ ApiJobJsonify

SpecPoll == Init /\ [][NextPoll]_vars

\* Submissions whose job ids are all distinct, as many as there are dicts.
NextDistinct ==
  \/ ApiGenerate /\ (\A id \in JobIds : jobs[id] # 0 => jobs'[id] = jobs[id])
  \/ \E s \in Subs : Worker(s)

SpecDistinct == Init /\ [][NextDistinct]_vars

\* ------------------------------------------------------------------ simulated workers
\* Threads that call job_log and job_update directly, on ids that are in the
\* store and on ids that are not, against a store holding one job.
InitStore ==
  /\ KAGGLE_LIVE_API_BASE = None
  /\ jobs = job_init([id \in JobIds |-> 0], JobIdOf(1), 1)
  /\ rec = [s \in Subs |-> IF s = 1 THEN NewMeta(JobIdOf(1), "LOCAL", DefaultDuration) ELSE NoRec]
  /\ nsub = 1
  /\ thr = [s \in Subs |-> NoThread]
  /\ http = [s \in Subs |-> 0]
  /\ cmd = [s \in Subs |-> None]
  /\ poll = NoPoll
  /\ sim = [t \in 1..NumSims |-> NoSim]
  /\ appends = [id \in JobIds |-> [t \in 1..NumSims |-> 0]]
  /\ request = [s \in Subs |-> NoRec]
  /\ disk = {}
  /\ procs = [s \in Subs |-> {}]
  /\ fetch = NoFetch

SimFrame ==
  UNCHANGED <<KAGGLE_LIVE_API_BASE, jobs, nsub, thr, http, cmd, request, disk, procs, fetch>>

\* The ids the workers pass: the one in the store and one that is not.
SimIds == {JobIdOf(1), JobIdOf(2)}

SimMessage(t) == "line of worker " \o HexDigit[t]

\* The field sets the executors pass to job_update before the final one.
SimFields == {[status |-> "running", progress |-> 5], [status |-> "error", progress |-> 0]}

\* A worker reaches a call: it is about to enter "with jobs_lock".
SimCall(t) ==
  /\ sim[t].pc = "idle"
  /\ sim[t].n < MaxCalls
  /\ \E job_id \in SimIds :
       \/ sim' = [sim EXCEPT ![t] = [pc |-> "called", n |-> sim[t].n, op |-> "job_log",
                                     job_id |-> job_id, fields |-> [status |-> None]]]
       \/ \E f \in SimFields :
            sim' = [sim EXCEPT ![t] = [pc |-> "called", n |-> sim[t].n, op |-> "job_update",
                                       job_id |-> job_id, fields |-> f]]
  /\ UNCHANGED <<rec, poll, appends>>
  /\ SimFrame

\* job_log(job_id, message) runs and returns.
SimJobLog(t) ==
  /\ sim[t].pc = "called"
  /\ sim[t].op = "job_log"
  /\ Commit(job_log(rec, jobs, sim[t].job_id, SimMessage(t)))
  /\ appends' = IF jobs[sim[t].job_id] = 0 THEN appends
                ELSE [appends EXCEPT ![sim[t].job_id][t] = @ + 1]
  /\ sim' = [sim EXCEPT ![t] = [NoSim EXCEPT !.n = sim[t].n + 1]]
  /\ SimFrame

\* job_update(job_id, **fields) runs and returns.
SimJobUpdate(t) ==
  /\ sim[t].pc = "called"
  /\ sim[t].op = "job_update"
  /\ Commit(job_update(rec, jobs, sim[t].job_id, sim[t].fields))
  /\ sim' = [sim EXCEPT ![t] = [NoSim EXCEPT !.n = sim[t].n + 1]]
  /\ UNCHANGED appends
  /\ SimFrame

NextStore ==
  \/ \E t \in 1..NumSims : SimCall(t)
  \/ \E t \in 1..NumSims : SimJobLog(t)
  \/ \E t \in 1..NumSims : SimJobUpdate(t)

SpecStore == InitStore /\ [][NextStore]_vars

\* ------------------------------------------------------------------ properties
Statuses == {"queued", "running", "done", "error"}

Lifecycle == {<<"queued", "running">>, <<"running", "done">>, <<"running", "error">>}

\* The job a worker thread works on, as the store resolves its job id.
MetaOf(s) == jobs[thr[s].job_id]

\* A worker thread that has been started and has not returned.
Alive(s) == thr[s].pc \notin {"none", "returned"}

\* C1: the status of a job record changes only along queued -> running ->
\* {done, error}, and never after done or error.
C1_StatusLifecycle ==
  [][\A s \in Subs :
       rec[s] # NoRec =>
         \/ rec'[s].status = rec[s].status
         \/ <<rec[s].status, rec'[s].status>> \in Lifecycle]_vars

\* C2: a record with status done has progress 100 and an output URL, and a
\* record with status error has progress 0.
C2_TerminalFields ==
  \A s \in Subs :
    rec[s] # NoRec =>
      /\ rec[s].status = "done" => rec[s].progress = 100 /\ rec[s].outputUrl # None
      /\ rec[s].status = "error" => rec[s].progress = 0

\* C3: a LOCAL submission whose rendering command succeeds ends done with
\* progress 100: once its request is answered and no worker of it is
\* pending, the record is done.
C3_LocalJobCompletes ==
  \A s \in Subs :
    (http[s] # 0 /\ rec[s].engine = "LOCAL" /\ cmd[s] = "ok" /\ ~Alive(s)) =>
      rec[s].status = "done" /\ rec[s].progress = 100

SoftFailPcs == {"k_fail_timeout", "k_fail_exception", "k_fail_json", "k_fail_notok"}

\* C4: on a soft failure of the remote call the remote executor does not set
\* the job to error (the job goes on under the local executor).
C4_SoftFailureFallsBack ==
  [][\A s \in Subs :
       (thr[s].pc \in SoftFailPcs /\ thr'[s] # thr[s] /\ MetaOf(s) # 0) =>
         rec'[MetaOf(s)].status # "error"]_vars

\* C5: a submission never gets a job id an earlier one used: job_init never
\* replaces the record the store holds for an id.
C5_FreshJobId ==
  [][\A id \in JobIds : jobs[id] # 0 => jobs'[id] = jobs[id]]_vars

\* C6: at most W job executions run at the same time.
C6_AtMostWRunning == Cardinality({s \in Subs : Alive(s)}) <= W

RECURSIVE SumAppends(_, _)
SumAppends(id, n) == IF n = 0 THEN 0 ELSE appends[id][n] + SumAppends(id, n - 1)

Count(seq, x) == Cardinality({i \in 1..Len(seq) : seq[i] = x})

\* C7: every line appended by concurrent job_log calls on a job id in the
\* store is in the log: its length is the initial entry plus one per call,
\* and each worker's line occurs once per call that worker made.
C7_NoLostAppend ==
  \A id \in JobIds :
    jobs[id] # 0 =>
      /\ Len(rec[jobs[id]].logs) = 1 + SumAppends(id, NumSims)
      /\ \A t \in 1..NumSims :
           Count(rec[jobs[id]].logs, Line(SimMessage(t))) = appends[id][t]

\* Two workers have each had a job_log return on the same job, with a
\* job_update in between or around them.
C7_Witness ==
  \E id \in JobIds :
    /\ jobs[id] # 0
    /\ appends[id][1] >= 1
    /\ appends[id][2] >= 1
    /\ rec[jobs[id]].status # "queued"

\* C8: the body api_job returns is the value its record had at one instant
\* between the lookup and the response.
C8_SnapshotIsOneInstant == poll.code = 200 => poll.body \in poll.seen

\* C9: when a worker has returned, the status of its job is done or error.
C9_WorkerEndsTerminal ==
  \A s \in Subs :
    (thr[s].pc = "returned" /\ MetaOf(s) # 0) => rec[MetaOf(s)].status \in {"done", "error"}

\* C10: the status of every record is queued, running, done or error.
C10_StatusInEnum == \A s \in Subs : rec[s] # NoRec => rec[s].status \in Statuses


\* C11: a record has progress 100 exactly when its status is done.
C11_ProgressIffDone ==
  \A s \in Subs :
    rec[s] # NoRec => (rec[s].progress = 100 <=> rec[s].status = "done")

\* C12: a submission with engine AUTO or with no engine is resolved to the
\* local engine and completes through the local executor: once its
\* request is answered and no worker of it is pending, its engine is LOCAL
\* and its status is terminal.
C12_AutoResolvesLocal ==
  \A s \in Subs :
    (http[s] # 0 /\ rec[s].engine \in {"AUTO", "LOCAL"} /\ ~Alive(s)) =>
      rec[s].engine = "LOCAL" /\ rec[s].status \in {"done", "error"}

KnownEngines == {"LOCAL", "KAGGLE_LIVE", "AUTO"}

\* C17: a submission naming an unknown engine is accepted with that name
\* kept in the record, and its job ends in status error.
C17_UnknownEngineFails ==
  \A s \in Subs :
    (http[s] # 0 /\ rec[s].engine \notin KnownEngines /\ ~Alive(s)) =>
      http[s] = 202 /\ rec[s].status = "error"


\* ------------------------------------------------------------------ duration
\* One submission carrying any of the duration values.
ApiGenerateDuration == nsub < MaxPolledJobs /\ ApiGenerateOf(DurationInputs)

NextSubmit == ApiGenerateDuration

SpecSubmit == Init /\ [][NextSubmit]_vars

\* The clamp the specification describes: the input limited to 1..60.
Clamped(n) == IF n < 1 THEN 1 ELSE IF n > 60 THEN 60 ELSE n

\* C13: for every integer duration a client sends, the duration stored in
\* the record is the input clamped to 1..60 (so -5, 0 and 500 are stored
\* as 1, 1 and 60).
C13_DurationClamped ==
  \A s \in Subs :
    (rec[s] # NoRec /\ request[s] # NoRec /\ request[s].t = "int") =>
      rec[s].duration = Clamped(request[s].v)


\* C18: a job_update or job_log call whose job id is not in the store
\* returns and leaves the whole store as it was: the id map and every dict.
C18_UnknownIdNoEffect ==
  [][\A t \in 1..NumSims :
       (sim[t].pc = "called" /\ sim'[t].pc = "idle" /\ jobs[sim[t].job_id] = 0) =>
         (jobs' = jobs /\ rec' = rec)]_vars

\* A worker has had all its calls return while the one dict of the store is
\* still as job_init built it: every one of them named the unknown id (a
\* call on the id in the store changes its status or its log).
C18_Witness ==
  \E t \in 1..NumSims :
    /\ sim[t].pc = "idle"
    /\ sim[t].n >= MaxCalls
    /\ jobs[JobIdOf(2)] = 0
    /\ rec[1] = NewMeta(JobIdOf(1), "LOCAL", DefaultDuration)


\* ------------------------------------------------------------------ generate_call_local
\* WORKDIR = Path(os.path.abspath("work"))
WORKDIR == "/srv/app/work"

\* The file generate_video.py writes for the run of submission s
\* (f"{base}-{ts}.mp4").
OutName(s) == "clip-" \o HexDigit[s] \o ".mp4"

Names == {OutName(s) : s \in Subs}

\* WORKDIR / name
AbsPath(n) == WORKDIR \o "/" \o n

AbsPaths == {AbsPath(n) : n \in Names}

\* Path.is_absolute() on the paths above
is_absolute(p) == p \in AbsPaths

\* out_path = Path(out_path); if not out_path.is_absolute(): out_path = WORKDIR / out_path
ResolvePath(p) == IF is_absolute(p) THEN p ELSE AbsPath(p)

\* out_path.name
NameOf(p) == CHOOSE n \in Names : AbsPath(n) = ResolvePath(p)

Quote(x) == "\"" \o x \o "\""

\* json.dumps({"output": v}) for the JSON text v
OutputLine(v) == "{\"output\": " \o v \o "}"

\* json.dumps({"error": "ffmpeg_failed"}), printed by generate_video.py before exit(1)
ErrorLine == "{\"error\": \"ffmpeg_failed\"}"

Missing == [t |-> "absent"]

PathTexts == {""} \cup Names \cup AbsPaths

\* maybe_json = json.loads(last_line); out_path = maybe_json.get("output"):
\* the parsed value and, for an object, its "output" field.
json_loads(line) ==
  CASE line \in {OutputLine(Quote(p)) : p \in PathTexts} ->
         [kind |-> "dict",
          output |-> [t |-> "str", v |-> CHOOSE p \in PathTexts : OutputLine(Quote(p)) = line]]
    [] line = OutputLine("5") -> [kind |-> "dict", output |-> IntDuration(5)]
    [] line = ErrorLine -> [kind |-> "dict", output |-> Missing]
    [] line = "[]" -> [kind |-> "list"]
    [] OTHER -> [kind |-> "invalid"]

\* Standard output of the command, as stdout.splitlines(): the last line
\* names the file by its absolute path (as generate_video.py prints it) or
\* relative to WORKDIR.
PathStdouts(s) ==
  {<<OutputLine(Quote(AbsPath(OutName(s))))>>,
   <<"frames written", OutputLine(Quote(OutName(s)))>>}

\* Standard output that names no file.
OtherStdouts ==
  {<<>>, <<"rendering">>, <<"[]">>, <<ErrorLine>>, <<OutputLine(Quote(""))>>,
   <<OutputLine("5")>>}

\* What subprocess.run(cmd, capture_output=True, text=True, timeout=3600) can
\* do: return a completed process (exit code, output, files it left),
\* raise TimeoutExpired after killing the command (a process the command
\* spawned, ffmpeg, is not killed with it and may be left running), or
\* raise another exception (the command cannot be started).
LocalOutcomes(s) ==
  {[kind |-> "exit", rc |-> rc, stdout |-> so, created |-> c, i |-> 0, exists |-> None] :
     rc \in {0, 1}, so \in PathStdouts(s), c \in {{}, {AbsPath(OutName(s))}}}
    \cup {[kind |-> "exit", rc |-> rc, stdout |-> so, created |-> {}, i |-> 0, exists |-> None] :
            rc \in {0, 1}, so \in OtherStdouts}
    \cup {[kind |-> "timeout", orphan |-> o] : o \in BOOLEAN}
    \cup {[kind |-> "oserror"]}

\* try: last_line = stdout.splitlines()[-1]; maybe_json = json.loads(last_line);
\*      out_path = maybe_json.get("output")
\* except Exception: the list is empty, the line is no JSON, or the value has no get.
Parsed(o) ==
  IF o.stdout = <<>> THEN [kind |-> "empty"] ELSE json_loads(o.stdout[Len(o.stdout)])

\* The resolved out_path of a completed process whose output names one.
OutPathOf(o) == ResolvePath(Parsed(o).output.v)

\* The checks without the one on the exit code.
AfterStdout_no_rc(o) ==
  IF Parsed(o).kind # "dict" THEN "l_log_parse"
  ELSE IF ~Truthy(Parsed(o).output) THEN "l_fail_nopath"
  ELSE IF Parsed(o).output.t # "str" THEN "l_exception"
  ELSE "l_exists"

\* Where the executor goes once the output lines are logged: the exit code
\* check, the parse, "if not out_path", Path(out_path), out_path.exists().
AfterStdout(o) ==
  IF o.rc # 0 THEN "l_fail_rc"
  ELSE IF Parsed(o).kind # "dict" THEN "l_log_parse"
  ELSE IF ~Truthy(Parsed(o).output) THEN "l_fail_nopath"
  ELSE IF Parsed(o).output.t # "str" THEN "l_exception"
  ELSE "l_exists"

\* repr(e) of the exception the parse raised
ParseError(o) ==
  CASE Parsed(o).kind = "empty" -> "IndexError('list index out of range')"
    [] Parsed(o).kind = "list" -> "AttributeError(\"'list' object has no attribute 'get'\")"
    [] OTHER -> "JSONDecodeError('Expecting value: line 1 column 1 (char 0)')"

LocalFailPcs == {"l_fail_rc", "l_fail_nopath", "l_fail_missing", "l_timeout", "l_exception"}

LocalFailLogPc(pc) ==
  CASE pc = "l_fail_rc" -> "l_log_rc"
    [] pc = "l_fail_nopath" -> "l_log_nopath"
    [] pc = "l_fail_missing" -> "l_log_missing"
    [] pc = "l_timeout" -> "l_log_timeout"
    [] pc = "l_exception" -> "l_log_exception"

LocalFailLogPcs == {LocalFailLogPc(pc) : pc \in LocalFailPcs}

\* The message logged after each job_update(job_id, status="error", progress=0).
LocalFailMessage(pc, o) ==
  CASE pc = "l_log_rc" -> "generator failed: rc=1, stderr="
    [] pc = "l_log_nopath" -> "no output path returned by generator"
    [] pc = "l_log_missing" -> "output file missing: " \o OutPathOf(o)
    [] pc = "l_log_timeout" -> "generation timed out"
    [] pc = "l_log_exception" ->
         IF o.kind = "oserror"
         THEN "exception: FileNotFoundError(2, 'No such file or directory')"
         ELSE "exception: TypeError('expected str, bytes or os.PathLike object, not int')"

LocalFrame ==
  UNCHANGED <<KAGGLE_LIVE_API_BASE, jobs, nsub, http, cmd, sim, appends, request, fetch>>

\* A job is created with an id the store does not hold and
\* generate_call_local is started on it in a thread of its own.
StartLocal ==
  /\ nsub < MaxSubmits
  /\ \E job_id \in JobIds :
       LET s == nsub + 1
       IN /\ jobs[job_id] = 0
          /\ nsub' = s
          /\ request' = [request EXCEPT ![s] = NoDuration]
          /\ jobs' = job_init(jobs, job_id, s)
          /\ Commit([rec EXCEPT ![s] = NewMeta(job_id, "LOCAL", DefaultDuration)])
          /\ thr' = [thr EXCEPT ![s] = [pc |-> "l_start", job_id |-> job_id, data |-> NoData]]
  /\ UNCHANGED <<KAGGLE_LIVE_API_BASE, http, cmd, sim, appends, disk, procs, fetch>>

\* job_log(job_id, "starting local generation")
LocalStart(s) ==
  /\ thr[s].pc = "l_start"
  /\ Commit(job_log(rec, jobs, thr[s].job_id, "starting local generation"))
  /\ thr' = [thr EXCEPT ![s].pc = "l_running"]
  /\ UNCHANGED <<disk, procs>>
  /\ LocalFrame

RunningFields == [status |-> "running", progress |-> 5]

\* job_update(job_id, status="running", progress=5)
LocalRunning(s) ==
  /\ thr[s].pc = "l_running"
  /\ Commit(job_update(rec, jobs, thr[s].job_id, RunningFields))
  /\ thr' = [thr EXCEPT ![s].pc = "l_run"]
  /\ UNCHANGED <<disk, procs>>
  /\ LocalFrame

\* proc = subprocess.run(...), from the start of the command to the return
\* or the exception, with the command behaving in one of the ways O.
LocalRunOf(s, O) ==
  /\ thr[s].pc = "l_run"
  /\ \E o \in O :
       /\ thr' = [thr EXCEPT ![s].data = o,
                             ![s].pc = CASE o.kind = "timeout" -> "l_timeout"
                                         [] o.kind = "oserror" -> "l_exception"
                                         [] OTHER -> IF o.stdout # <<>> THEN "l_log_header"
                                                     ELSE AfterStdout(o)]
       /\ disk' = IF o.kind = "exit" THEN disk \cup o.created ELSE disk
       /\ procs' = [procs EXCEPT ![s] = IF o.kind = "timeout" /\ o.orphan THEN {"ffmpeg"}
                                        ELSE {}]
  /\ UNCHANGED <<rec, poll>>
  /\ LocalFrame

LocalRun(s) == LocalRunOf(s, LocalOutcomes(s))

\* job_log(job_id, "generator stdout:")
LocalLogHeader(s) ==
  /\ thr[s].pc = "l_log_header"
  /\ Commit(job_log(rec, jobs, thr[s].job_id, "generator stdout:"))
  /\ thr' = [thr EXCEPT ![s].pc = "l_log_line", ![s].data.i = 1]
  /\ UNCHANGED <<disk, procs>>
  /\ LocalFrame

\* for line in stdout.splitlines(): job_log(job_id, line)
LocalLogLine(s) ==
  /\ thr[s].pc = "l_log_line"
  /\ LET o == thr[s].data
     IN /\ Commit(job_log(rec, jobs, thr[s].job_id, o.stdout[o.i]))
        /\ thr' = [thr EXCEPT ![s].data.i = o.i + 1,
                              ![s].pc = IF o.i < Len(o.stdout) THEN "l_log_line"
                                        ELSE AfterStdout(o)]
  /\ UNCHANGED <<disk, procs>>
  /\ LocalFrame

\* job_log(job_id, f"parse error on last line: {repr(e)}"); out_path stays None.
LocalParseErrorLog(s) ==
  /\ thr[s].pc = "l_log_parse"
  /\ Commit(job_log(rec, jobs, thr[s].job_id,
                    "parse error on last line: " \o ParseError(thr[s].data)))
  /\ thr' = [thr EXCEPT ![s].pc = "l_fail_nopath"]
  /\ UNCHANGED <<disk, procs>>
  /\ LocalFrame

\* A check that finds every file.
exists_always(p) == TRUE

\* Path.exists()
exists(p) == p \in disk

\* if not out_path.exists(): ...
LocalExists(s) ==
  /\ thr[s].pc = "l_exists"
  /\ thr' = [thr EXCEPT ![s].data.exists = IF exists(OutPathOf(thr[s].data)) THEN "yes" ELSE "no",
                        ![s].pc = IF exists(OutPathOf(thr[s].data)) THEN "l_done"
                                  ELSE "l_fail_missing"]
  /\ UNCHANGED <<rec, poll, disk, procs>>
  /\ LocalFrame

\* A failure update that resets the progress and leaves the status.
ErrorFields_progress_only == [progress |-> 0]

ErrorFields == [status |-> "error", progress |-> 0]

\* job_update(job_id, status="error", progress=0)
LocalFail(s) ==
  /\ thr[s].pc \in LocalFailPcs
  /\ Commit(job_update(rec, jobs, thr[s].job_id, ErrorFields))
  /\ thr' = [thr EXCEPT ![s].pc = LocalFailLogPc(thr[s].pc)]
  /\ UNCHANGED <<disk, procs>>
  /\ LocalFrame

\* The job_log after the failure update; the function returns.
LocalFailLog(s) ==
  /\ thr[s].pc \in LocalFailLogPcs
  /\ Commit(job_log(rec, jobs, thr[s].job_id, LocalFailMessage(thr[s].pc, thr[s].data)))
  /\ thr' = [thr EXCEPT ![s].pc = "returned"]
  /\ UNCHANGED <<disk, procs>>
  /\ LocalFrame

\* outputUrl=f"/api/output/{job_id}"
LocalUrl(job_id) == "/api/output/" \o job_id

DoneFields(job_id, out_path) ==
  [status |-> "done", progress |-> 100, outputPath |-> out_path,
   outputUrl |-> LocalUrl(job_id)]

\* job_update(job_id, status="done", progress=100, outputPath=str(out_path),
\*            outputUrl=f"/api/output/{job_id}")
LocalDone(s) ==
  /\ thr[s].pc = "l_done"
  /\ Commit(job_update(rec, jobs, thr[s].job_id,
                       DoneFields(thr[s].job_id, OutPathOf(thr[s].data))))
  /\ thr' = [thr EXCEPT ![s].pc = "l_log_finished"]
  /\ UNCHANGED <<disk, procs>>
  /\ LocalFrame

\* job_log(job_id, f"finished: {out_path.name}"); the function returns.
LocalDoneLog(s) ==
  /\ thr[s].pc = "l_log_finished"
  /\ Commit(job_log(rec, jobs, thr[s].job_id,
                    "finished: " \o NameOf(OutPathOf(thr[s].data))))
  /\ thr' = [thr EXCEPT ![s].pc = "returned"]
  /\ UNCHANGED <<disk, procs>>
  /\ LocalFrame

\* The steps of generate_call_local before and after the command.
LocalSteps(s) ==
  \/ LocalStart(s)
  \/ LocalRunning(s)
  \/ LocalLogHeader(s)
  \/ LocalLogLine(s)
  \/ LocalParseErrorLog(s)
  \/ LocalExists(s)
  \/ LocalFail(s)
  \/ LocalFailLog(s)
  \/ LocalDone(s)
  \/ LocalDoneLog(s)

\* A step of generate_call_local in the thread of submission s.
LocalWorker(s) == LocalRun(s) \/ LocalSteps(s)

EnvFrame ==
  UNCHANGED <<KAGGLE_LIVE_API_BASE, jobs, rec, nsub, thr, http, cmd, poll, sim, appends,
              request, fetch>>

\* A process the timeout left running ends by itself.
ProcExit(s) ==
  /\ procs[s] # {}
  /\ procs' = [procs EXCEPT ![s] = {}]
  /\ UNCHANGED disk
  /\ EnvFrame

\* A file under WORKDIR is deleted from outside the server.
RemoveFile ==
  /\ \E p \in disk : disk' = disk \ {p}
  /\ UNCHANGED procs
  /\ EnvFrame


\* C15: when the local command does not exit within the timeout, the job
\* ends in status error with a timed-out log entry, and once the executor
\* has returned no process started for the job is still running.
C15_TimeoutLeavesNoProcess ==
  \A s \in Subs :
    (thr[s].pc = "returned" /\ thr[s].data.kind = "timeout") =>
      /\ rec[s].status = "error"
      /\ \E i \in 1..Len(rec[s].logs) : rec[s].logs[i] = Line("generation timed out")
      /\ procs[s] = {}


\* C16: within one execution attempt the progress of a record never
\* decreases: no step writes a progress below the one it replaces.
C16_ProgressNeverDecreases ==
  [][\A s \in Subs :
       (rec[s] # NoRec /\ rec'[s] # NoRec) => rec'[s].progress >= rec[s].progress]_vars

\* C16 (amended): the only step that lowers the progress of a record is
\* the update that ends a failed attempt: it is made on a running record
\* and writes status error with progress 0.
C16_ProgressDropsOnlyOnError ==
  [][\A s \in Subs :
       (rec[s] # NoRec /\ rec'[s] # NoRec /\ rec'[s].progress < rec[s].progress) =>
         (rec[s].status = "running" /\ rec'[s].status = "error" /\ rec'[s].progress = 0)]_vars

\* An executor has raised the progress of its job to 5, failed and returned:
\* the record is in error with progress 0.
C16_Witness ==
  \E s \in Subs :
    /\ thr[s].pc = "returned"
    /\ rec[s].status = "error"
    /\ rec[s].progress = 0
    /\ \E i \in 1..Len(rec[s].logs) : rec[s].logs[i] = Line("starting local generation")


\* ------------------------------------------------------------------ both executors
\* Jobs of either executor, each under an id the store does not hold yet.
NextExec ==
  \/ nsub < MaxLocalJobs /\ ApiGenerate /\ (\A id \in JobIds : jobs[id] # 0 => jobs'[id] = jobs[id])
  \/ nsub < MaxLocalJobs /\ StartLocal
  \/ \E s \in Subs : Worker(s)
  \/ \E s \in Subs : LocalWorker(s)
  \/ \E s \in Subs : ProcExit(s)
  \/ RemoveFile

SpecExec == Init /\ [][NextExec]_vars


\* generate_call_local has returned in the thread of submission s.
LocalReturned(s) ==
  thr[s].pc = "returned" /\ thr[s].data.kind \in {"exit", "timeout", "oserror"}

\* The success condition as the specification states it: exit code 0, a
\* last line that is a JSON object with a non-empty output field, and the
\* resolved path found on disk when it was looked up.
Succeeds(o) ==
  /\ o.kind = "exit"
  /\ o.rc = 0
  /\ o.stdout # <<>>
  /\ json_loads(o.stdout[Len(o.stdout)]).kind = "dict"
  /\ Truthy(json_loads(o.stdout[Len(o.stdout)]).output)
  /\ o.exists = "yes"

\* The log entry that names the check a failed run did not pass.
FailedCheck(o) ==
  CASE o.kind = "timeout" -> "generation timed out"
    [] o.kind = "oserror" -> "exception: FileNotFoundError(2, 'No such file or directory')"
    [] o.rc # 0 -> "generator failed: rc=1, stderr="
    [] o.exists = "no" -> "output file missing: " \o OutPathOf(o)
    [] o.stdout # <<>> /\ json_loads(o.stdout[Len(o.stdout)]).kind = "dict"
         /\ Truthy(json_loads(o.stdout[Len(o.stdout)]).output) ->
         "exception: TypeError('expected str, bytes or os.PathLike object, not int')"
    [] OTHER -> "no output path returned by generator"

\* C20: when the local executor has returned, its job is done exactly when
\* the command exited with 0, the last line of its output is a JSON object
\* with a non-empty output field and the resolved path existed; then the
\* record has progress 100, that path and the retrieval URL of the job.  In
\* every other case the job is in error with progress 0 and the last log
\* entry names the failed check.
C20_DoneIffAllChecksPass ==
  \A s \in Subs :
    LocalReturned(s) =>
      LET o == thr[s].data
          meta == rec[s]
      IN /\ meta.status = "done" <=> Succeeds(o)
         /\ Succeeds(o) =>
              /\ meta.progress = 100
              /\ meta.outputPath = OutPathOf(o)
              /\ meta.outputUrl = LocalUrl(thr[s].job_id)
         /\ ~Succeeds(o) =>
              /\ meta.status = "error"
              /\ meta.progress = 0
              /\ meta.logs[Len(meta.logs)] = Line(FailedCheck(o))

\* A local executor has returned after a run that passed every check, and
\* its job is done.
C20_Witness ==
  \E s \in Subs :
    /\ LocalReturned(s)
    /\ Succeeds(thr[s].data)
    /\ rec[s].status = "done"


\* ------------------------------------------------------------------ api_output
FetchFrame ==
  UNCHANGED <<KAGGLE_LIVE_API_BASE, jobs, rec, nsub, thr, http, cmd, poll, sim, appends,
              request, disk, procs>>

\* The request is answered with the status code.
Answer(code) == [fetch EXCEPT !.pc = "idle", !.n = fetch.n + 1, !.code = code]

\* with jobs_lock: meta = jobs.get(job_id); an unknown id is answered 404
\* (job_not_found).
ApiOutputGet ==
  /\ fetch.pc = "idle"
  /\ fetch.n < MaxFetches
  /\ \E job_id \in JobIds :
       fetch' = IF jobs[job_id] = 0
                THEN [NoFetch EXCEPT !.n = fetch.n + 1, !.job_id = job_id, !.code = 404]
                ELSE [NoFetch EXCEPT !.pc = "path", !.n = fetch.n, !.job_id = job_id,
                                     !.meta = jobs[job_id]]
  /\ FetchFrame

\* output_path = meta.get("outputPath"), read outside the lock; None is
\* answered 404 (output_not_ready_or_remote).
ApiOutputPath ==
  /\ fetch.pc = "path"
  /\ fetch' = IF rec[fetch.meta].outputPath = None THEN Answer(404)
              ELSE [fetch EXCEPT !.pc = "exists", !.output_path = rec[fetch.meta].outputPath]
  /\ FetchFrame

\* p = Path(output_path); a p that does not exist is answered 404 (file_missing).
ApiOutputExists ==
  /\ fetch.pc = "exists"
  /\ fetch' = IF exists(fetch.output_path) THEN [fetch EXCEPT !.pc = "send"] ELSE Answer(404)
  /\ FetchFrame

\* send_file(str(p), mimetype="video/mp4"): the file is opened and streamed
\* with status 200; if it has been removed since the check, opening it
\* raises and the request ends with status 500.
ApiOutputSend ==
  /\ fetch.pc = "send"
  /\ fetch' = IF fetch.output_path \in disk THEN Answer(200) ELSE Answer(500)
  /\ FetchFrame

\* The runs of the command that matter to a reader of outputPath: exit
\* code 0 with an output that names the file, which is on disk or not, or
\* with an output that names none.
FetchOutcomes(s) ==
  {o \in LocalOutcomes(s) :
     /\ o.kind = "exit"
     /\ o.rc = 0
     /\ o.stdout \in {<<OutputLine(Quote(AbsPath(OutName(s))))>>, <<"rendering">>}}

LocalRunFetch(s) == LocalRunOf(s, FetchOutcomes(s))

\* Jobs of either executor and a client of GET /api/output.
NextFetch ==
  \/ nsub < MaxLocalJobs /\ ApiGenerate /\ (\A id \in JobIds : jobs[id] # 0 => jobs'[id] = jobs[id])
  \/ nsub < MaxLocalJobs /\ StartLocal
  \/ \E s \in Subs : Worker(s)
  \/ \E s \in Subs : LocalRunFetch(s)
  \/ \E s \in Subs : LocalSteps(s)
  \/ RemoveFile
  \/ ApiOutputGet
  \/ ApiOutputPath
  \/ ApiOutputExists
  \/ ApiOutputSend

SpecFetch == Init /\ [][NextFetch]_vars

\* C19: api_output streams a file (status 200) only when the record it
\* looked up is done with a local output path whose file is on disk; when
\* the job is unknown, its record is not done, or the record is done with
\* no local output, the answer is 404; and when the file of the output
\* path is missing at the existence check the request is answered 404 there.
C19_StreamsOnlyDoneLocalFile ==
  [][/\ fetch'.n = fetch.n + 1 =>
          LET m == fetch'.meta
          IN /\ fetch'.code = 200 =>
                  /\ m # 0
                  /\ rec[m].status = "done"
                  /\ rec[m].outputPath \in AbsPaths
                  /\ rec[m].outputPath \in disk
             /\ (m = 0 \/ rec[m].status # "done" \/ rec[m].outputPath = None) =>
                  fetch'.code = 404
     /\ (fetch.pc = "exists" /\ fetch' # fetch /\ fetch.output_path \notin disk) =>
          (fetch'.n = fetch.n + 1 /\ fetch'.code = 404)]_vars

\* A request for the output of a done local job has been answered with the
\* file.
C19_Witness ==
  /\ fetch.code = 200
  /\ fetch.meta # 0
  /\ rec[fetch.meta].engine = "LOCAL"
  /\ rec[fetch.meta].status = "done"


\* ------------------------------------------------------------------ api_job on a local job
\* A local job and a client polling GET /api/job.
NextLocalPoll ==
  \/ nsub < MaxPolledJobs /\ StartLocal
  \/ \E s \in Subs : LocalWorker(s)
  \/ \E s \in Subs : ProcExit(s)
  \/ ApiJobGet
  \/ ApiJobCopy
  \/ ApiJobJsonify

SpecLocalPoll == Init /\ [][NextLocalPoll]_vars

\* The log lines that carry the absolute path of an output file: the
\* generator's output line and the missing-file entry.
PathLines ==
  {Line(OutputLine(Quote(p))) : p \in AbsPaths}
    \cup {Line("output file missing: " \o p) : p \in AbsPaths}

\* C14: no response of api_job carries a local filesystem path of the
\* artifact: it has no outputPath field, none of its text fields is such a
\* path, and no line of its logs contains one.
C14_NoPathInResponse ==
  poll.code = 200 =>
    /\ "outputPath" \notin DOMAIN poll.body
    /\ \A k \in {"jobId", "engine", "status", "outputUrl"} : poll.body[k] \notin AbsPaths
    /\ \A i \in 1..Len(poll.body.logs) : poll.body.logs[i] \notin PathLines


\* ------------------------------------------------------------------ terminal status and its log line
\* The log entries the executors write for the end of job job_id: after a
\* failure update, or after the final update of a finished run.
TerminalLines(job_id) ==
  {Line(FailMessage(pc)) : pc \in FailLogPcs}
    \cup {Line("KAGGLE_LIVE finished. Output URL: " \o RemoteUrl(job_id))}
    \cup {Line("generator failed: rc=1, stderr="),
          Line("no output path returned by generator"),
          Line("generation timed out"),
          Line("exception: FileNotFoundError(2, 'No such file or directory')"),
          Line("exception: TypeError('expected str, bytes or os.PathLike object, not int')")}
    \cup {Line("output file missing: " \o p) : p \in AbsPaths}
    \cup {Line("finished: " \o n) : n \in Names}

\* C21: a response of api_job that shows status error or done also shows,
\* in its logs, the entry that explains that outcome.
C21_TerminalStatusHasLogLine ==
  (poll.code = 200 /\ poll.body.status \in {"done", "error"}) =>
    \E i \in 1..Len(poll.body.logs) : poll.body.logs[i] \in TerminalLines(poll.body.jobId)

====
